---- MODULE Spec2Model ----
(***************************************************************************)
(* Model of script.js: the temperature heatmap page.                       *)
(*                                                                         *)
(* The page fetches a CSV once, parses its rows into daily records,        *)
(* aggregates them (createAggregatedData, createDailyData), builds two     *)
(* heatmaps and registers one change listener on the mode selector.        *)
(* Colours are kept symbolically: a fill is the pair (scale domain, value) *)
(* the colour scale was applied to, a mini line is the series it plots     *)
(* together with the two scale domains used for it.  Transitions are       *)
(* modelled by their target values.                                       *)
(***************************************************************************)
EXTENDS Integers, Sequences, FiniteSets

(* ---------------- bounds of the model ---------------- *)
MaxRecords == 2
CellWidth == 4

(* ---------------- program constants ---------------- *)
WindowBack == 9
TooltipDX == 10
TooltipDY == 10

(* ---------------- input domains ---------------- *)
Years == {2005, 2006, 2015}
MonthNumbers == {1, 2}
DayNumbers == {1, 2}
Temps == {0, 1}
TempTypes == {"max", "min"}
PagePoints == {<<0, 0>>, <<3, 5>>}

\* the text of a CSV date cell, "YYYY-MM-DD", as its three numbers
DateTexts == Years \X MonthNumbers \X DayNumbers

Rows == [date : DateTexts, max_temperature : Temps, min_temperature : Temps]

RECURSIVE SeqsUpTo(_, _)
SeqsUpTo(S, n) ==
    IF n = 0 THEN {<<>>}
    ELSE LET shorter == SeqsUpTo(S, n - 1)
         IN  shorter \cup {Append(s, x) : s \in {t \in shorter : Len(t) = n - 1}, x \in S}

RowFiles == SeqsUpTo(Rows, MaxRecords)

\* the smaller files the pointer actions are explored over: one year outside the
\* window and one inside, one month, two days
SampleRows == [date : {2005, 2015} \X {1} \X DayNumbers,
               max_temperature : {1}, min_temperature : Temps]

SampleFiles == SeqsUpTo(SampleRows, MaxRecords)

(* ---------------- dates ---------------- *)
\* d3.timeParse("%Y-%m-%d"): a Date, whose month is zero-based
parseDate(text) == [year |-> text[1], month0 |-> text[2] - 1, day |-> text[3]]

getFullYear(date) == date.year

getMonth(date) == date.month0

\* d3.timeFormat("%Y-%m-%d")
formatDate(date) == <<date.year, date.month0 + 1, date.day>>

\* the order of two Dates under < and >, by their time value
DateValue(date) == (date.year * 12 + date.month0) * 31 + date.day

\* d3.ascending(a, b)
ascending(a, b) == IF a < b THEN -1 ELSE IF a > b THEN 1 ELSE 0

(* ---------------- d3 array helpers ---------------- *)
\* d3.max / d3.min over the values of a sequence: <<>> is undefined
RECURSIVE D3MaxFrom(_, _, _)
D3MaxFrom(vals, i, best) ==
    IF i > Len(vals) THEN best
    ELSE D3MaxFrom(vals, i + 1,
                   IF best = <<>> \/ best[1] < vals[i] THEN <<vals[i]>> ELSE best)

D3Max(vals) == D3MaxFrom(vals, 1, <<>>)

RECURSIVE D3MinFrom(_, _, _)
D3MinFrom(vals, i, best) ==
    IF i > Len(vals) THEN best
    ELSE D3MinFrom(vals, i + 1,
                   IF best = <<>> \/ best[1] > vals[i] THEN <<vals[i]>> ELSE best)

D3Min(vals) == D3MinFrom(vals, 1, <<>>)

\* [d3.min(..), d3.max(..)] and d3.extent(..): <<lo, hi>>, or <<>> when both are undefined
D3Extent(vals) == D3Min(vals) \o D3Max(vals)

\* the distinct values of a sequence in order of first occurrence (InternMap key order)
RECURSIVE DistinctFrom(_, _, _)
DistinctFrom(s, i, acc) ==
    IF i > Len(s) THEN acc
    ELSE DistinctFrom(s, i + 1,
                      IF \E j \in 1..Len(acc) : acc[j] = s[i] THEN acc ELSE Append(acc, s[i]))

Distinct(s) == DistinctFrom(s, 1, <<>>)

RECURSIVE Flatten(_)
Flatten(ss) == IF ss = <<>> THEN <<>> ELSE Head(ss) \o Flatten(Tail(ss))

MaxTempOf(d) == d.max_temperature

MinTempOf(d) == d.min_temperature

YearOf(d) == getFullYear(d.date)

MonthOf(d) == getMonth(d.date) + 1

\* the values an accessor yields over an array, in array order
maxTemperatures(records) == [i \in 1..Len(records) |-> MaxTempOf(records[i])]

minTemperatures(records) == [i \in 1..Len(records) |-> MinTempOf(records[i])]

yearsOf(records) == [i \in 1..Len(records) |-> YearOf(records[i])]

monthsOf(records) == [i \in 1..Len(records) |-> MonthOf(records[i])]

maxOfItems(items) == [i \in 1..Len(items) |-> items[i].max]

minOfItems(items) == [i \in 1..Len(items) |-> items[i].min]

(* ---------------- parseData ---------------- *)
parseRow(row) ==
    [date |-> parseDate(row.date),
     max_temperature |-> row.max_temperature,
     min_temperature |-> row.min_temperature]

parseData(rawData) == [i \in 1..Len(rawData) |-> parseRow(rawData[i])]

(* ---------------- d3.rollup by (year, month) ---------------- *)
\* the records of one (year, month) group, in input order
GroupOf(data, year, month) ==
    SelectSeq(data, LAMBDA d : YearOf(d) = year /\ MonthOf(d) = month)

\* the months of one year, in the order the nested map iterates them
MonthsOfYear(data, year) ==
    Distinct(monthsOf(SelectSeq(data, LAMBDA d : YearOf(d) = year)))

\* the (year, month) keys in the order the two forEach loops visit them
RollupKeys(data) ==
    LET years == Distinct(yearsOf(data))
        keysOf(y) == [j \in 1..Len(MonthsOfYear(data, y)) |-> <<y, MonthsOfYear(data, y)[j]>>]
    IN  Flatten([i \in 1..Len(years) |-> keysOf(years[i])])

\* mutant: both fields reduced over max_temperature
SummaryOfOneColumn(values) ==
    [max |-> D3Max(maxTemperatures(values))[1],
     min |-> D3Min(maxTemperatures(values))[1]]

\* the reduce of createAggregatedData
SummaryOf(values) ==
    [max |-> D3Max(maxTemperatures(values))[1],
     min |-> D3Min(minTemperatures(values))[1]]

createAggregatedData(data) ==
    LET keys == RollupKeys(data)
        entry(k) == LET temps == SummaryOf(GroupOf(data, k[1], k[2]))
                    IN  [year |-> k[1], month |-> k[2], max |-> temps.max, min |-> temps.min]
    IN  [i \in 1..Len(keys) |-> entry(keys[i])]

\* Array.prototype.sort with (a, b) => d3.ascending(a.date, b.date): a stable sort
RECURSIVE InsertByDate(_, _)
InsertByDate(sorted, x) ==
    IF sorted = <<>> THEN <<x>>
    ELSE LET last == sorted[Len(sorted)]
         IN  IF ascending(DateValue(last.date), DateValue(x.date)) <= 0
             THEN Append(sorted, x)
             ELSE Append(InsertByDate(SubSeq(sorted, 1, Len(sorted) - 1), x), last)

RECURSIVE SortFrom(_, _, _)
SortFrom(values, i, sorted) ==
    IF i > Len(values) THEN sorted
    ELSE SortFrom(values, i + 1, InsertByDate(sorted, values[i]))

\* mutant: the group is left in input order
sortByDateSkipped(values) == values

sortByDate(values) == SortFrom(values, 1, <<>>)

createDailyData(filteredData) ==
    LET keys == RollupKeys(filteredData)
        entry(k) == [year |-> k[1], month |-> k[2],
                     days |-> sortByDate(GroupOf(filteredData, k[1], k[2]))]
    IN  [i \in 1..Len(keys) |-> entry(keys[i])]

\* mutant: the oldest year of the window is cut off
filterRecentExclusive(data) ==
    LET maxYear == D3Max(yearsOf(data))
    IN  IF maxYear = <<>> THEN <<>>
        ELSE SelectSeq(data, LAMBDA d : YearOf(d) > maxYear[1] - WindowBack)

\* initVisualizations lines 37-38: the records of the ten most recent years
filterRecent(data) ==
    LET maxYear == D3Max(yearsOf(data))
    IN  IF maxYear = <<>> THEN <<>>
        ELSE SelectSeq(data, LAMBDA d : YearOf(d) >= maxYear[1] - WindowBack)

(* ---------------- scales ---------------- *)
\* the output of a d3 scale with this domain at this value, kept symbolically
Scale(domain, value) == [domain |-> domain, value |-> value]

\* the key function of both data joins: `${d.year}-${d.month}`
cellKey(d) == <<d.year, d.month>>

KeysOf(items) == {cellKey(items[i]) : i \in 1..Len(items)}

DatumAt(items, key) == items[CHOOSE i \in 1..Len(items) : cellKey(items[i]) = key]

FieldOf(d, tempType) == IF tempType = "max" THEN d.max ELSE d.min

(* ---------------- state ---------------- *)
VARIABLES
    phase,              \* "start", "pending" (fetch in flight), "failed", "ready"
    fetches,            \* how many times d3.csv was called
    errors,             \* how many times console.error was called
    data,               \* the parsed daily records
    processedData,      \* the monthly summaries
    filteredData,       \* the records of the retained window
    processedDailyData, \* the monthly day-buckets
    heatmap1,           \* the aggregated view: colour domain, legend domain, cells
    heatmap2,           \* the recent-years view: legend domain, mini extent, cells
    tooltip,            \* the shared .tooltip element
    listener,           \* whether the change listener is registered
    selected,           \* the checked value of the tempType radio group
    pointer             \* the cell the mouse pointer is over, <<>> when over none

vars == <<phase, fetches, errors, data, processedData, filteredData, processedDailyData,
          heatmap1, heatmap2, tooltip, listener, selected, pointer>>

NotBuilt == [built |-> FALSE]

NoTooltip == [present |-> FALSE]

NoPointer == <<>>

(* ---------------- createYearlyHeatmap ---------------- *)
\* updateMatrix of the aggregated view: the keyed join, then the fill of every merged cell
yearlyUpdateMatrix(cells, items, colorDomain, tempType) ==
    LET update == DOMAIN cells \cap KeysOf(items)
        enter  == KeysOf(items) \ DOMAIN cells
    IN  [k \in enter \cup update |->
            [datum |-> DatumAt(items, k),
             fill  |-> Scale(colorDomain, FieldOf(DatumAt(items, k), tempType))]]

\* mutant: the legend keeps the combined domain whatever the field
getExtentCombined(items, tempType) ==
    D3Min(minOfItems(items)) \o D3Max(maxOfItems(items))

\* getExtent of the aggregated view
getExtent(items, tempType) ==
    IF tempType = "max"
    THEN D3Extent(maxOfItems(items))
    ELSE D3Extent(minOfItems(items))

\* mutant: the colour domain taken from the max field alone
yearlyColorDomainOfMax(items) == D3Extent(maxOfItems(items))

\* the colour scale domain set at construction
yearlyColorDomain(items) ==
    D3Min(minOfItems(items)) \o D3Max(maxOfItems(items))

createYearlyHeatmap(items) ==
    [built        |-> TRUE,
     colorDomain  |-> yearlyColorDomain(items),
     legendDomain |-> D3Min(minOfItems(items)) \o D3Max(maxOfItems(items)),
     cells        |-> yearlyUpdateMatrix(<<>>, items, yearlyColorDomain(items), "max")]

\* the tooltip element appended by createYearlyHeatmap when the page has none
createTooltip(tip) ==
    IF tip.present THEN tip
    ELSE [present |-> TRUE, display |-> "none", html |-> <<>>, position |-> <<>>]

(* ---------------- createRecentYearsHeatmap ---------------- *)
\* mutant: the two columns exchanged
getGlobalTempExtentSwapped(records, tempType) ==
    IF tempType = "max"
    THEN D3Extent(minTemperatures(records))
    ELSE D3Extent(maxTemperatures(records))

getGlobalTempExtent(records, tempType) ==
    IF tempType = "max"
    THEN D3Extent(maxTemperatures(records))
    ELSE D3Extent(minTemperatures(records))

\* the value that colours one cell of the recent-years view
aggVal(bucket, tempType) ==
    IF tempType = "max"
    THEN D3Max(maxTemperatures(bucket.days))[1]
    ELSE D3Min(minTemperatures(bucket.days))[1]

\* the path of one mini line: the points (xMini(i + 1), yMini(temperature))
miniLine(days, miniExtent, temps) ==
    [i \in 1..Len(days) |->
        <<Scale(<<1, Len(days)>>, i), Scale(miniExtent, temps[i])>>]

\* mutant: the cells already on the page are removed instead of merged
recentUpdateMatrixEnterOnly(cells, buckets, records, miniExtent, tempType) ==
    LET colorDomain == getGlobalTempExtent(records, tempType)
        enter  == KeysOf(buckets) \ DOMAIN cells
    IN  [k \in enter |->
            LET d == DatumAt(buckets, k)
            IN  [datum   |-> d,
                 fill    |-> Scale(colorDomain, aggVal(d, tempType)),
                 lineMax |-> miniLine(d.days, miniExtent, maxTemperatures(d.days)),
                 lineMin |-> miniLine(d.days, miniExtent, minTemperatures(d.days))]]

recentUpdateMatrix(cells, buckets, records, miniExtent, tempType) ==
    LET colorDomain == getGlobalTempExtent(records, tempType)
        update == DOMAIN cells \cap KeysOf(buckets)
        enter  == KeysOf(buckets) \ DOMAIN cells
    IN  [k \in enter \cup update |->
            LET d == DatumAt(buckets, k)
            IN  [datum   |-> d,
                 fill    |-> Scale(colorDomain, aggVal(d, tempType)),
                 lineMax |-> miniLine(d.days, miniExtent, maxTemperatures(d.days)),
                 lineMin |-> miniLine(d.days, miniExtent, minTemperatures(d.days))]]

globalMiniExtent(records) ==
    D3Min(minTemperatures(records)) \o D3Max(maxTemperatures(records))

createRecentYearsHeatmap(buckets, records) ==
    [built        |-> TRUE,
     legendDomain |-> D3Min(minTemperatures(records)) \o D3Max(maxTemperatures(records)),
     miniExtent   |-> globalMiniExtent(records),
     cells        |-> recentUpdateMatrix(<<>>, buckets, records, globalMiniExtent(records), "max")]

\* the day a pointer offset addresses: Math.floor((mx / bandwidth) * days.length)
dayIndex(mx, days) == (mx * Len(days)) \div CellWidth

\* d.days[dayIndex] is an element of the array (array indices start at 0)
hasDay(mx, days) == dayIndex(mx, days) >= 0 /\ dayIndex(mx, days) < Len(days)

dayAt(mx, days) == days[dayIndex(mx, days) + 1]

monthHtml(d) == [kind |-> "month", year |-> d.year, month |-> d.month, max |-> d.max, min |-> d.min]

dayHtml(day) ==
    [kind |-> "day", date |-> formatDate(day.date),
     max |-> day.max_temperature, min |-> day.min_temperature]

tooltipPosition(pt) == <<pt[1] + TooltipDX, pt[2] - TooltipDY>>

(* ---------------- actions ---------------- *)
Init ==
    /\ phase = "start"
    /\ fetches = 0
    /\ errors = 0
    /\ data = <<>>
    /\ processedData = <<>>
    /\ filteredData = <<>>
    /\ processedDailyData = <<>>
    /\ heatmap1 = NotBuilt
    /\ heatmap2 = NotBuilt
    /\ tooltip = NoTooltip
    /\ listener = FALSE
    /\ selected = "max"
    /\ pointer = NoPointer

\* the DOMContentLoaded handler: starts the one fetch
DOMContentLoaded ==
    /\ phase = "start"
    /\ phase' = "pending"
    /\ fetches' = fetches + 1
    /\ UNCHANGED <<errors, data, processedData, filteredData, processedDailyData,
                   heatmap1, heatmap2, tooltip, listener, selected, pointer>>

\* mutant: a failed fetch is started again
LoadFailedRetry ==
    /\ phase = "pending"
    /\ errors' = errors + 1
    /\ fetches' = fetches + 1
    /\ UNCHANGED <<phase, data, processedData, filteredData, processedDailyData,
                   heatmap1, heatmap2, tooltip, listener, selected, pointer>>

\* the promise rejects: the catch callback logs the error
LoadFailed ==
    /\ phase = "pending"
    /\ phase' = "failed"
    /\ errors' = errors + 1
    /\ UNCHANGED <<fetches, data, processedData, filteredData, processedDailyData,
                   heatmap1, heatmap2, tooltip, listener, selected, pointer>>

\* the promise resolves with the rows: parseData, then initVisualizations
Loaded(rawData) ==
    /\ phase = "pending"
    /\ phase' = "ready"
    /\ data' = parseData(rawData)
    /\ processedData' = createAggregatedData(data')
    /\ filteredData' = filterRecent(data')
    /\ processedDailyData' = createDailyData(filteredData')
    /\ heatmap1' = createYearlyHeatmap(processedData')
    /\ tooltip' = createTooltip(tooltip)
    /\ heatmap2' = createRecentYearsHeatmap(processedDailyData', filteredData')
    /\ listener' = TRUE
    /\ UNCHANGED <<fetches, errors, selected, pointer>>

\* mutant: the handler updates the aggregated view only
ChangeFirstViewOnly(selectedType) ==
    /\ selected' = selectedType
    /\ IF listener
       THEN /\ heatmap1' = [heatmap1 EXCEPT
                   !.cells = yearlyUpdateMatrix(heatmap1.cells, processedData,
                                                heatmap1.colorDomain, selectedType),
                   !.legendDomain = getExtent(processedData, selectedType)]
            /\ UNCHANGED heatmap2
       ELSE UNCHANGED <<heatmap1, heatmap2>>
    /\ UNCHANGED <<phase, fetches, errors, data, processedData, filteredData,
                   processedDailyData, tooltip, listener, pointer>>

\* a change event on the radio group; the handler runs only when registered
Change(selectedType) ==
    /\ selected' = selectedType
    /\ IF listener
       THEN /\ heatmap1' = [heatmap1 EXCEPT
                   !.cells = yearlyUpdateMatrix(heatmap1.cells, processedData,
                                                heatmap1.colorDomain, selectedType),
                   !.legendDomain = getExtent(processedData, selectedType)]
            /\ heatmap2' = [heatmap2 EXCEPT
                   !.cells = recentUpdateMatrix(heatmap2.cells, processedDailyData, filteredData,
                                                heatmap2.miniExtent, selectedType),
                   !.legendDomain = getGlobalTempExtent(filteredData, selectedType)]
       ELSE UNCHANGED <<heatmap1, heatmap2>>
    /\ UNCHANGED <<phase, fetches, errors, data, processedData, filteredData,
                   processedDailyData, tooltip, listener, pointer>>

\* mouseover on a cell of the aggregated view
YearlyMouseOver(key, pt) ==
    /\ heatmap1.built /\ key \in DOMAIN heatmap1.cells
    /\ pointer \in {NoPointer, <<1, key>>}
    /\ pointer' = <<1, key>>
    /\ tooltip' = [tooltip EXCEPT !.display = "block",
                                  !.html = monthHtml(heatmap1.cells[key].datum),
                                  !.position = tooltipPosition(pt)]
    /\ UNCHANGED <<phase, fetches, errors, data, processedData, filteredData,
                   processedDailyData, heatmap1, heatmap2, listener, selected>>

YearlyMouseMove(key, pt) ==
    /\ heatmap1.built /\ pointer = <<1, key>>
    /\ tooltip' = [tooltip EXCEPT !.position = tooltipPosition(pt)]
    /\ UNCHANGED <<phase, fetches, errors, data, processedData, filteredData,
                   processedDailyData, heatmap1, heatmap2, listener, selected, pointer>>

YearlyMouseOut(key) ==
    /\ heatmap1.built /\ pointer = <<1, key>>
    /\ pointer' = NoPointer
    /\ tooltip' = [tooltip EXCEPT !.display = "none"]
    /\ UNCHANGED <<phase, fetches, errors, data, processedData, filteredData,
                   processedDailyData, heatmap1, heatmap2, listener, selected>>

\* mouseover on a cell of the recent-years view, the pointer at offset mx in the cell
RecentMouseOver(key, mx) ==
    /\ heatmap2.built /\ key \in DOMAIN heatmap2.cells
    /\ pointer \in {NoPointer, <<2, key>>}
    /\ pointer' = <<2, key>>
    /\ LET days == heatmap2.cells[key].datum.days
       IN  tooltip' = IF hasDay(mx, days)
                      THEN [tooltip EXCEPT !.display = "block",
                                           !.html = dayHtml(dayAt(mx, days))]
                      ELSE tooltip
    /\ UNCHANGED <<phase, fetches, errors, data, processedData, filteredData,
                   processedDailyData, heatmap1, heatmap2, listener, selected>>

RecentMouseMove(key, mx, pt) ==
    /\ heatmap2.built /\ pointer = <<2, key>>
    /\ LET days == heatmap2.cells[key].datum.days
       IN  tooltip' = IF hasDay(mx, days)
                      THEN [tooltip EXCEPT !.position = tooltipPosition(pt)]
                      ELSE tooltip
    /\ UNCHANGED <<phase, fetches, errors, data, processedData, filteredData,
                   processedDailyData, heatmap1, heatmap2, listener, selected, pointer>>

RecentMouseOut(key) ==
    /\ heatmap2.built /\ pointer = <<2, key>>
    /\ pointer' = NoPointer
    /\ tooltip' = [tooltip EXCEPT !.display = "none"]
    /\ UNCHANGED <<phase, fetches, errors, data, processedData, filteredData,
                   processedDailyData, heatmap1, heatmap2, listener, selected>>

\* the then-callback over every bounded file
LoadFile == phase = "pending" /\ \E rawData \in RowFiles : Loaded(rawData)

\* the then-callback over the sample files
LoadSample == phase = "pending" /\ \E rawData \in SampleFiles : Loaded(rawData)

CellKeys == Years \X MonthNumbers

Offsets == -1..CellWidth

Next ==
    \/ DOMContentLoaded
    \/ LoadFailed
    \/ LoadSample
    \/ \E selectedType \in TempTypes : Change(selectedType)
    \/ \E key \in CellKeys, pt \in PagePoints : YearlyMouseOver(key, pt)
    \/ \E key \in CellKeys, pt \in PagePoints : YearlyMouseMove(key, pt)
    \/ \E key \in CellKeys : YearlyMouseOut(key)
    \/ \E key \in CellKeys, mx \in Offsets : RecentMouseOver(key, mx)
    \/ \E key \in CellKeys, mx \in Offsets, pt \in PagePoints : RecentMouseMove(key, mx, pt)
    \/ \E key \in CellKeys : RecentMouseOut(key)

Spec == Init /\ [][Next]_vars

\* the load pipeline and the mode selector alone, over every bounded file:
\* the specification the claims about the aggregation functions are checked under
NextData ==
    \/ DOMContentLoaded
    \/ LoadFailed
    \/ LoadFile
    \/ \E selectedType \in TempTypes : Change(selectedType)

SpecData == Init /\ [][NextData]_vars

(* ---------------- vocabulary of the properties ---------------- *)
Ready == phase = "ready"

RecYear(d) == d.date.year

RecMonth(d) == d.date.month0 + 1

InGroup(d, item) == RecYear(d) = item.year /\ RecMonth(d) = item.month

\* calendar order of two dates
DateLeq(a, b) ==
    \/ a.year < b.year
    \/ a.year = b.year /\ a.month0 < b.month0
    \/ a.year = b.year /\ a.month0 = b.month0 /\ a.day <= b.day

\* how many positions of a sequence hold x
Count(s, x) == Cardinality({i \in 1..Len(s) : s[i] = x})

IsMaxOf(v, S) == v \in S /\ \A w \in S : w <= v

IsMinOf(v, S) == v \in S /\ \A w \in S : v <= w

MaxTemps(records) == {records[i].max_temperature : i \in 1..Len(records)}

MinTemps(records) == {records[i].min_temperature : i \in 1..Len(records)}

RecYears(records) == {RecYear(records[i]) : i \in 1..Len(records)}

\* C1: for a non-empty record set createAggregatedData returns exactly one summary
\* per (year, month) pair present in the input and none for an absent pair, and each
\* summary's max is the maximum max_temperature and its min the minimum
\* min_temperature of the records of its group.
C1_SummariesPerGroup ==
    (Ready /\ data # <<>>) =>
        /\ \A i \in 1..Len(data) :
              Cardinality({j \in 1..Len(processedData) : InGroup(data[i], processedData[j])}) = 1
        /\ \A j \in 1..Len(processedData) :
              LET group == SelectSeq(data, LAMBDA d : InGroup(d, processedData[j]))
              IN  /\ group # <<>>
                  /\ IsMaxOf(processedData[j].max, MaxTemps(group))
                  /\ IsMinOf(processedData[j].min, MinTemps(group))

\* a group of two records whose extremes come from different records
C1_Witness ==
    /\ Ready
    /\ Len(data) = 2 /\ Len(processedData) = 1
    /\ data[1].max_temperature < data[2].max_temperature
    /\ data[1].min_temperature < data[2].min_temperature

\* C2: createDailyData returns one bucket per (year, month) pair of its input, and each
\* bucket's days are sorted non-decreasing by date and are a permutation of exactly the
\* input records of that group.
C2_BucketsSortedPermutation ==
    Ready =>
        /\ \A i \in 1..Len(filteredData) :
              Cardinality({j \in 1..Len(processedDailyData) :
                              InGroup(filteredData[i], processedDailyData[j])}) = 1
        /\ \A j \in 1..Len(processedDailyData) :
              LET bucket == processedDailyData[j]
                  group == SelectSeq(filteredData, LAMBDA d : InGroup(d, bucket))
              IN  /\ group # <<>>
                  /\ Len(bucket.days) = Len(group)
                  /\ \A i \in 1..Len(bucket.days) :
                        Count(bucket.days, bucket.days[i]) = Count(group, bucket.days[i])
                  /\ \A a, b \in 1..Len(bucket.days) :
                        a < b => DateLeq(bucket.days[a].date, bucket.days[b].date)

\* a bucket whose two records arrived in descending date order
C2_Witness ==
    /\ Ready
    /\ Len(filteredData) = 2 /\ Len(processedDailyData) = 1
    /\ filteredData[1].date.day > filteredData[2].date.day
    /\ processedDailyData[1].days = <<filteredData[2], filteredData[1]>>

\* C3: the filtered set holds exactly the records whose year lies in [Yn - 9, Yn], Yn the
\* maximum year of the full set, in their input order, while the summaries are built from
\* the full set; a set of a single year retains exactly that year.
C3_Window ==
    (Ready /\ data # <<>>) =>
        LET Yn == CHOOSE y \in RecYears(data) : IsMaxOf(y, RecYears(data))
        IN  /\ filteredData = SelectSeq(data, LAMBDA d : RecYear(d) \in (Yn - 9)..Yn)
            /\ \A i \in 1..Len(data) : RecYear(data[i]) < Yn - 9 => Count(filteredData, data[i]) = 0
            /\ {<<RecYear(data[i]), RecMonth(data[i])>> : i \in 1..Len(data)}
                   = {<<processedData[j].year, processedData[j].month>> : j \in 1..Len(processedData)}
            /\ Cardinality(RecYears(data)) = 1 => RecYears(filteredData) = RecYears(data)

\* the oldest year of the window is present and kept
C3_Witness ==
    /\ Ready
    /\ RecYears(data) = {2006, 2015}
    /\ RecYears(filteredData) = {2006, 2015}

\* C7: for a non-empty record set the extent derived from the summaries (least min,
\* greatest max) is the extent of the raw records (least min_temperature, greatest
\* max_temperature).
C7_ExtentRoundTrip ==
    (Ready /\ data # <<>>) =>
        /\ Len(heatmap1.colorDomain) = 2
        /\ IsMinOf(heatmap1.colorDomain[1], MinTemps(data))
        /\ IsMaxOf(heatmap1.colorDomain[2], MaxTemps(data))
        /\ IsMinOf(heatmap1.colorDomain[1], {processedData[j].min : j \in 1..Len(processedData)})
        /\ IsMaxOf(heatmap1.colorDomain[2], {processedData[j].max : j \in 1..Len(processedData)})

\* two summaries, the global minimum in one and the global maximum in the other
C7_Witness ==
    /\ Ready
    /\ Len(processedData) = 2
    /\ processedData[1].min < processedData[2].min
    /\ processedData[1].max < processedData[2].max

\* the (min, max) of one field over the summaries, <<>> when there are none
FieldExtent(items, tempType) ==
    LET S == {FieldOf(items[j], tempType) : j \in 1..Len(items)}
    IN  IF S = {} THEN <<>>
        ELSE <<CHOOSE v \in S : IsMinOf(v, S), CHOOSE v \in S : IsMaxOf(v, S)>>

\* the (min, max) of one temperature column over daily records
ColumnExtent(records, tempType) ==
    LET S == IF tempType = "max" THEN MaxTemps(records) ELSE MinTemps(records)
    IN  IF S = {} THEN <<>>
        ELSE <<CHOOSE v \in S : IsMinOf(v, S), CHOOSE v \in S : IsMaxOf(v, S)>>

\* [least min, greatest max] over the summaries
SummaryDomain(items) ==
    IF items = <<>> THEN <<>>
    ELSE <<FieldExtent(items, "min")[1], FieldExtent(items, "max")[2]>>

\* both views show the cells of their data, coloured and scaled for tempType
RenderedFor(tempType) ==
    /\ DOMAIN heatmap1.cells = {<<processedData[j].year, processedData[j].month>> :
                                   j \in 1..Len(processedData)}
    /\ \A j \in 1..Len(processedData) :
          LET cell == heatmap1.cells[<<processedData[j].year, processedData[j].month>>]
          IN  /\ cell.datum = processedData[j]
              /\ cell.fill = Scale(heatmap1.colorDomain, FieldOf(processedData[j], tempType))
    /\ heatmap1.legendDomain = FieldExtent(processedData, tempType)
    /\ DOMAIN heatmap2.cells = {<<processedDailyData[j].year, processedDailyData[j].month>> :
                                   j \in 1..Len(processedDailyData)}
    /\ \A j \in 1..Len(processedDailyData) :
          LET bucket == processedDailyData[j]
              cell == heatmap2.cells[<<bucket.year, bucket.month>>]
              shown == IF tempType = "max" THEN MaxTemps(bucket.days) ELSE MinTemps(bucket.days)
          IN  /\ cell.datum = bucket
              /\ cell.fill.domain = ColumnExtent(filteredData, tempType)
              /\ IF tempType = "max" THEN IsMaxOf(cell.fill.value, shown)
                                     ELSE IsMinOf(cell.fill.value, shown)
    /\ heatmap2.legendDomain = ColumnExtent(filteredData, tempType)

\* C4: every change event handled by the listener leaves both views' cell fills and both
\* legends' domains showing the selected field, and leaves the daily records, the
\* summaries and the day-buckets (day order included) as they were.
C4_ChangeUpdatesBothViews ==
    [][\A t \in TempTypes :
          (listener /\ Change(t)) =>
              /\ RenderedFor(t)'
              /\ UNCHANGED <<data, processedData, filteredData, processedDailyData>>]_vars

\* the selector was toggled to "min" over cells whose two fields differ
C4_Witness ==
    /\ Ready /\ selected = "min" /\ RenderedFor("min")
    /\ \E k \in DOMAIN heatmap1.cells : heatmap1.cells[k].datum.max # heatmap1.cells[k].datum.min
    /\ DOMAIN heatmap2.cells # {}

\* C5: a failed load is logged once, the fetch is made exactly once and never again, and
\* nothing is built: no summaries, no buckets, no heatmap, no tooltip, no listener,
\* whatever the selector does afterwards.
C5_FailedLoadBuildsNothing ==
    /\ fetches <= 1
    /\ phase = "failed" =>
          /\ fetches = 1 /\ errors = 1
          /\ data = <<>> /\ processedData = <<>>
          /\ filteredData = <<>> /\ processedDailyData = <<>>
          /\ heatmap1 = NotBuilt /\ heatmap2 = NotBuilt
          /\ tooltip = NoTooltip
          /\ listener = FALSE

\* the load failed and the selector was changed afterwards
C5_Witness == phase = "failed" /\ selected = "min" /\ errors = 1

\* C6: in both views updateMatrix with a field, applied again with the same field, gives
\* the same cells: one per (year, month) key, with the same fill and the same mini lines.
C6_UpdateMatrixIdempotent ==
    Ready =>
        \A t \in TempTypes :
            LET once1 == yearlyUpdateMatrix(heatmap1.cells, processedData, heatmap1.colorDomain, t)
                once2 == recentUpdateMatrix(heatmap2.cells, processedDailyData, filteredData,
                                            heatmap2.miniExtent, t)
            IN  /\ yearlyUpdateMatrix(once1, processedData, heatmap1.colorDomain, t) = once1
                /\ DOMAIN once1 = KeysOf(processedData)
                /\ recentUpdateMatrix(once2, processedDailyData, filteredData,
                                      heatmap2.miniExtent, t) = once2
                /\ DOMAIN once2 = KeysOf(processedDailyData)

\* both views have cells, and a re-render with the other field changes a fill
C6_Witness ==
    /\ Ready /\ selected = "min"
    /\ DOMAIN heatmap2.cells # {}
    /\ yearlyUpdateMatrix(heatmap1.cells, processedData, heatmap1.colorDomain, "max") # heatmap1.cells

\* C8: in the aggregated view the cell colour-scale domain stays [least summary min,
\* greatest summary max] through every updateMatrix/updateLegend, while the legend
\* domain after updateLegend(field) is the (min, max) of that field over the summaries.
C8_ColorDomainFixedLegendFollows ==
    [][/\ Ready' => heatmap1.colorDomain' = SummaryDomain(processedData')
       /\ \A t \in TempTypes :
             (listener /\ Change(t)) =>
                 /\ heatmap1.colorDomain' = heatmap1.colorDomain
                 /\ heatmap1.legendDomain' = FieldExtent(processedData, t)]_vars

\* after a toggle to "min" the legend domain differs from the cell colour domain
C8_Witness ==
    /\ Ready /\ selected = "min"
    /\ heatmap1.legendDomain = FieldExtent(processedData, "min")
    /\ heatmap1.legendDomain # heatmap1.colorDomain

\* the index the hover contract names: floor((mx / W) * n)
HoverIndex(mx, n) == CHOOSE q \in -(n + 1)..(n + 1) : q * CellWidth <= mx * n /\ mx * n < (q + 1) * CellWidth

\* what the hover contract asks of one pointer event at offset mx over the cell `key`
HoverContract(key, mx) ==
    LET days == heatmap2.cells[key].datum.days
        index == HoverIndex(mx, Len(days))
    IN  IF index >= 0 /\ index < Len(days)
        THEN /\ tooltip'.display = "block"
             /\ tooltip'.html = [kind |-> "day",
                                 date |-> <<RecYear(days[index + 1]), RecMonth(days[index + 1]),
                                            days[index + 1].date.day>>,
                                 max |-> days[index + 1].max_temperature,
                                 min |-> days[index + 1].min_temperature]
        ELSE tooltip' = tooltip

\* C9: in the recent-years view a hover at offset mx over a cell of n days addresses day
\* floor((mx / W) * n); if that day exists the tooltip is shown with that day's date, max
\* and min, otherwise the tooltip is left as it was; mouseout hides the tooltip.
C9_HoverShowsAddressedDay ==
    [][/\ \A key \in CellKeys, mx \in Offsets :
             RecentMouseOver(key, mx) => HoverContract(key, mx)
       /\ \A key \in CellKeys, mx \in Offsets, pt \in PagePoints :
             RecentMouseMove(key, mx, pt) => HoverContract(key, mx)
       /\ \A key \in CellKeys : RecentMouseOut(key) => tooltip'.display = "none"]_vars

\* every record has max_temperature >= min_temperature
MaxAtLeastMin == \A i \in 1..Len(data) : data[i].max_temperature >= data[i].min_temperature

InDomain(fill) ==
    /\ Len(fill.domain) = 2
    /\ fill.domain[1] <= fill.value
    /\ fill.value <= fill.domain[2]

\* C10: when every record has max_temperature >= min_temperature, in both views and
\* after any toggles, the value that colours a cell lies within the [low, high] domain
\* of the colour scale that coloured it.
C10_FillWithinDomain ==
    (Ready /\ MaxAtLeastMin) =>
        /\ \A k \in DOMAIN heatmap1.cells : InDomain(heatmap1.cells[k].fill)
        /\ \A k \in DOMAIN heatmap2.cells : InDomain(heatmap2.cells[k].fill)

\* after a toggle to "min", two cells in each view coloured from different values
C10_Witness ==
    /\ Ready /\ MaxAtLeastMin /\ selected = "min"
    /\ \E k1, k2 \in DOMAIN heatmap1.cells :
          heatmap1.cells[k1].fill.value < heatmap1.cells[k2].fill.value
    /\ \E k1, k2 \in DOMAIN heatmap2.cells :
          /\ heatmap2.cells[k1].fill.value < heatmap2.cells[k2].fill.value
          /\ heatmap2.cells[k1].datum.days[1].min_temperature = heatmap2.cells[k1].fill.value

====
